---- MODULE Spec2Model ----
(***************************************************************************)
(* A state-machine model of tvb.core.services.import_service.ImportService *)
(* (src/framework_tvb/tvb/core/services/import_service.py).                *)
(*                                                                         *)
(* One import_project_structure call is a sequential process; pc is its    *)
(* position in the code.  The persistence layer is the record db, the      *)
(* final storage (TVB_STORAGE/PROJECTS) the record disk, the folder trees  *)
(* the importer reads are fixed (the tree at the hard-coded import path)   *)
(* and staged (the trees of the unpacked project roots).                   *)
(*                                                                         *)
(* Spec is the calls that run one after the other, ConcurrentSpec the      *)
(* calls that run at once on one ImportService, MethodSpec the public      *)
(* methods load_datatype_from_file and get_directory_ordered_list called   *)
(* on files and trees of their own.                                        *)
(***************************************************************************)
EXTENDS Integers, Sequences, FiniteSets, TLC

\* ------------------------------------------------------------ bounds
MaxCalls == 2
MaxRoots == 2
MaxFolders == 2

Names == {"P1", "P2"}
Users == {"u1"}

\* ------------------------------------------------------------ inputs
\* An H5 file: its class as H5File.h5_class_from_file reports it ("unreadable":
\* the classification raises), its gid, its create_date (0: None), whether
\* FilesUpdateManager.upgrade_file accepts it and, for a view model, whether its
\* type is a key of VIEW_MODEL2ADAPTER.
H5(cls, gid, date, ok, known) ==
    [cls |-> cls, gid |-> gid, create_date |-> date, upgradable |-> ok, adapter |-> known]

dtA == H5("DataTypeH5", 1, 2, TRUE, FALSE)
dtB == H5("DataTypeH5", 2, 1, TRUE, FALSE)
dtOld == H5("DataTypeH5", 3, 0, FALSE, FALSE)
vmKnown == H5("ViewModelH5", 4, 2, TRUE, TRUE)
vmOther == H5("ViewModelH5", 5, 1, TRUE, FALSE)
vmLater == H5("ViewModelH5", 8, 1, TRUE, TRUE)
dtNoDate == H5("DataTypeH5", 9, 0, TRUE, FALSE)
burstCfg == H5("BurstConfigurationH5", 6, 1, TRUE, FALSE)
broken == H5("unreadable", 7, 0, FALSE, FALSE)

\* A folder of a tree: xml says whether it holds Operation.xml, create_date is
\* the date that file records, group the fk_operation_group it records (0:
\* None) and gid the gid it records (0 without Operation.xml), parent is the
\* index of the enclosing folder of the tree (0: directly under the walked
\* path), files is os.listdir's order.
Folder(xml, date, group, gid, parent, files) ==
    [xml |-> xml, create_date |-> date, group |-> group, gid |-> gid, parent |-> parent,
     files |-> files]

\* The last folder of the pool lies inside the first folder of its tree.
FolderPool ==
    { Folder(TRUE, 2, 1, 11, 0, <<dtOld, dtA, dtB>>),
      Folder(FALSE, 0, 0, 0, 0, <<vmOther, vmKnown, vmLater, dtOld, dtA, burstCfg>>),
      Folder(FALSE, 0, 0, 0, 0, <<broken, vmOther, dtB>>),
      Folder(TRUE, 1, 2, 12, 1, <<dtNoDate, dtB>>) }

\* The trees of up to n folders.  A listing has no order of its own (WalkOrders
\* gives every order os.walk can take), so of the trees that differ only in the
\* order of the folders after the first, one is kept: the one with the folders
\* that hold more files first.
Trees(n) ==
    UNION { { t \in [1..k -> FolderPool] :
                /\ \A i \in 1..k : t[i].parent < i
                /\ \A i \in 2..(k - 1) : Len(t[i].files) >= Len(t[i + 1].files) }
            : k \in 0..n }

\* The scenario of spec section 8: legacy folder A dated before modern folder B.
MixedTree ==
    << Folder(TRUE, 1, 0, 13, 0, <<dtOld, dtB>>), Folder(FALSE, 0, 0, 0, 0, <<vmKnown, dtA>>) >>

\* A metadata file of an images folder: whether the image file it names is
\* there ("ok") or not ("missing"), and the gid of the operation it records as
\* fk_from_operation.
Image(state, gid) == [state |-> state, fk_from_operation |-> gid]

\* A project root of an archive: the name its metadata file gives the project,
\* whether ProjectUpdateManager can upgrade it, its operation folders and the
\* metadata files of its images folder.  The image of the first root records the
\* gid of the Operation.xml of the first folder of FolderPool, the images of the
\* second a gid no operation has.
Root(name, ok, ops, images) ==
    [name |-> name, upgradable |-> ok, ops |-> ops, images |-> images]

RootPool ==
    { Root("P1", TRUE, MixedTree, <<Image("ok", 11)>>),
      Root("P2", TRUE, <<>>, <<Image("missing", 99), Image("ok", 99)>>),
      Root("P2", FALSE, <<>>, <<>>) }

Archive(kind, roots) == [kind |-> kind, roots |-> roots]

NoArchive == Archive("none", <<>>)

\* An upload without file, a file that is no zip, or a zip of up to MaxRoots
\* different project roots.
Archives ==
    { Archive("nofile", <<>>), Archive("badzip", <<>>) }
      \cup { Archive("zip", r) :
               r \in { q \in UNION { [1..n -> RootPool] : n \in 1..MaxRoots } :
                         \A i, j \in 1..Len(q) : q[i] = q[j] => i = j } }

\* ------------------------------------------------------------ state
VARIABLES
    db,                 \* the persistence layer, as the running transaction sees it
    db_saved,           \* the persistence layer at the start of the transaction
    disk,               \* TVB_STORAGE/PROJECTS: project folders and what they hold
    fixed,              \* the folder tree at the hard-coded import path
    staged,             \* the folder trees of the staged project roots
    staging,            \* whether temp_folder and uq_file_name exist
    user_id,            \* self.user_id
    created_projects,   \* self.created_projects
    pc,                 \* position of the running call ("idle": none runs)
    archive,            \* the uploaded archive of the running call
    k,                  \* number of project roots already processed
    project,            \* the Project entity of the current root
    directory_ordered_list,   \* folders still to walk in import_project_operations
    walk,               \* roots still to visit in the current os.walk(path)
    operation_entity,   \* id of the Operation of the current folder
    files,              \* files still to load in the current folder
    all_datatypes,      \* entities loaded from the current folder
    excep,              \* the exception being propagated
    outcome,            \* how the last call ended
    calls,              \* number of calls started
    thread,             \* calls running at once on one ImportService: their locals
    clock,              \* the reading of datetime.now()
    tmp,                \* TVB_TEMP_FOLDER: the staged archives and folders of those calls
    storage,            \* the H5 files a direct call of a method finds, by path
    returned            \* the last direct call of a method: its arguments and result

\* The variables of the calls that run at once.
conc == << thread, clock, tmp >>

\* The variables of the methods that other services call directly.
direct == << storage, returned >>

\* The locals of the call that runs alone.
alone == << db_saved, fixed, staged, staging, pc, archive, k, project,
            directory_ordered_list, walk, operation_entity, files, all_datatypes,
            excep, outcome, calls >>

vars == << db, db_saved, disk, fixed, staged, staging, user_id, created_projects,
           pc, archive, k, project, directory_ordered_list, walk, operation_entity,
           files, all_datatypes, excep, outcome, calls, thread, clock, tmp,
           storage, returned >>

EmptyDb ==
    [projects |-> {}, ops |-> <<>>, dtgroups |-> <<>>, datatypes |-> <<>>, links |-> <<>>,
     bursts |-> <<>>, figures |-> <<>>]

EmptyDisk ==
    [projects |-> {}, markers |-> {}, opdirs |-> {}, files |-> {}, images |-> {}]

\* ------------------------------------------------------------ helpers
\* sorted(..., key=...) of Python: a stable sort of records by their field key.
RECURSIVE insort(_, _)
insort(s, x) ==
    IF s = <<>> THEN <<x>>
    ELSE IF x.key < Head(s).key THEN <<x>> \o s
    ELSE <<Head(s)>> \o insort(Tail(s), x)

RECURSIVE sorted(_)
sorted(s) ==
    IF s = <<>> THEN <<>>
    ELSE insort(sorted(SubSeq(s, 1, Len(s) - 1)), s[Len(s)])

\* datetime.now(): later than every date a file records.
Now == 9

\* Folder i of tree t is folder a or lies below it.
RECURSIVE IsUnder(_, _, _)
IsUnder(t, i, a) ==
    \/ i = a
    \/ t[i].parent # 0 /\ IsUnder(t, t[i].parent, a)

\* The folders os.walk visits from folder a (0: from the top of the tree).
Subtree(t, a) ==
    IF a = 0 THEN 1..Len(t) ELSE { i \in 1..Len(t) : IsUnder(t, i, a) }

\* os.walk is top-down: a folder, then its subfolders' subtrees one after the
\* other, the subfolders in the arbitrary order os.listdir gives.
WalkOrders(t, a) ==
    LET S == Subtree(t, a)
        n == Cardinality(S)
    IN { w \in [1..n -> S] :
           /\ \A p, q \in 1..n : p # q => w[p] # w[q]
           /\ \A p \in 1..n :
                LET D == Subtree(t, w[p]) \ {w[p]}
                IN /\ p + Cardinality(D) <= n
                   /\ { w[q] : q \in (p+1)..(p + Cardinality(D)) } = D }

\* The tree an import path names.
StagedPath(i) == [kind |-> "staged", idx |-> i]

HardCodedPath == [kind |-> "fixed", idx |-> 0]

TreeAt(path) ==
    IF path.kind = "fixed" THEN fixed
    ELSE IF path.idx \in DOMAIN staged THEN staged[path.idx] ELSE <<>>

WriteTree(path, t) ==
    IF path.kind = "fixed"
    THEN fixed' = t /\ UNCHANGED staged
    ELSE staged' = [staged EXCEPT ![path.idx] = t] /\ UNCHANGED fixed

\* import_project_operations overwrites its import_path argument (line 248).
import_path(passed) == HardCodedPath

\* The path import_project_operations works on for the current root.
CurrentPath == import_path(StagedPath(k + 1))

CurrentRoot == archive.roots[k + 1]

ViewModels(fs) == SelectSeq(fs, LAMBDA f : f.cls = "ViewModelH5")

\* Remove the first occurrence of file f from a listing.
RECURSIVE without(_, _)
without(fs, f) ==
    IF fs = <<>> THEN <<>>
    ELSE IF Head(fs) = f THEN Tail(fs)
    ELSE <<Head(fs)>> \o without(Tail(fs), f)

\* shutil.rmtree of a project folder: the folder and everything below it.
rmtree(d, name) ==
    [projects |-> d.projects \ {name},
     markers |-> d.markers \ {name},
     opdirs |-> { o \in d.opdirs : o[1] # name },
     files |-> { f \in d.files : f.project # name },
     images |-> { i \in d.images : i.project # name }]

\* No method has been called directly.
NoCall ==
    [method |-> "none", current_file |-> [folder |-> "none", name |-> [cls |-> "none", gid |-> 0]],
     final_storage |-> "none", move |-> FALSE, result |-> [cls |-> "none", gid |-> 0]]

\* An exception: its class and its message (str(excep)).
Exc(type, msg) == [type |-> type, msg |-> msg]

NoExc == Exc("none", "")

Raise(type, msg) == pc' = "except" /\ excep' = Exc(type, msg)

\* ------------------------------------------------------------ Init
Init ==
    /\ db = EmptyDb
    /\ db_saved = EmptyDb
    /\ disk = EmptyDisk
    /\ fixed \in Trees(MaxFolders)
    /\ staged = <<>>
    /\ staging = [folder |-> FALSE, zip |-> FALSE]
    /\ user_id = "none"
    /\ created_projects = <<>>
    /\ pc = "idle"
    /\ archive = NoArchive
    /\ k = 0
    /\ project = "none"
    /\ directory_ordered_list = <<>>
    /\ walk = <<>>
    /\ operation_entity = 0
    /\ files = <<>>
    /\ all_datatypes = <<>>
    /\ excep = NoExc
    /\ outcome = Exc("none", "")
    /\ calls = 0
    /\ thread = <<>>
    /\ clock = 0
    /\ tmp = {}
    /\ storage = {}
    /\ returned = NoCall

\* ------------------------------------------------------------ the call
\* The call that goes on with the created_projects of the call before it.
import_project_structure_keeping_list(uploaded, uid) ==
    /\ pc = "idle"
    /\ calls < MaxCalls
    /\ calls' = calls + 1
    /\ db_saved' = db
    /\ user_id' = uid
    /\ archive' = uploaded
    /\ outcome' = Exc("running", "")
    /\ pc' = "unpack"
    /\ UNCHANGED << db, disk, fixed, staged, staging, k, project, directory_ordered_list,
                    walk, operation_entity, files, all_datatypes, excep, created_projects >>
    /\ UNCHANGED << conc, direct >>

\* Lines 108-127: the transaction opens, the per-call fields are reset.
import_project_structure(uploaded, uid) ==
    /\ pc = "idle"
    /\ calls < MaxCalls
    /\ calls' = calls + 1
    /\ db_saved' = db
    /\ user_id' = uid
    /\ created_projects' = <<>>
    /\ archive' = uploaded
    /\ outcome' = Exc("running", "")
    /\ pc' = "unpack"
    /\ UNCHANGED << db, disk, fixed, staged, staging, k, project, directory_ordered_list,
                    walk, operation_entity, files, all_datatypes, excep >>
    /\ UNCHANGED << conc, direct >>

\* Lines 81-95 and 157-160: copy the upload to uq_file_name, unpack it into
\* temp_folder, collect the project roots.
download_and_unpack_project_zip ==
    /\ pc = "unpack"
    /\ \/ /\ archive.kind = "nofile"
          /\ Raise("ImportException", "no archive selected")
          /\ UNCHANGED << staging, staged >>
       \/ /\ archive.kind = "badzip"
          /\ \E partial \in BOOLEAN : staging' = [folder |-> partial, zip |-> TRUE]
          /\ Raise("ImportException", "bad zip archive")
          /\ UNCHANGED staged
       \/ /\ archive.kind = "zip"
          /\ staging' = [folder |-> TRUE, zip |-> TRUE]
          /\ staged' = [i \in 1..Len(archive.roots) |-> archive.roots[i].ops]
          /\ pc' = "root"
          /\ UNCHANGED excep
    /\ k' = 0
    /\ UNCHANGED << db, db_saved, disk, fixed, user_id, created_projects, archive, project,
                    directory_ordered_list, walk, operation_entity, files, all_datatypes,
                    outcome, calls >>
    /\ UNCHANGED << conc, direct >>

\* The loop going on to __populate_project whatever run_all_updates did.
run_all_updates_ignored ==
    /\ pc = "root"
    /\ \/ /\ k = Len(archive.roots)
          /\ pc' = "finally"
          /\ UNCHANGED excep
       \/ /\ k < Len(archive.roots)
          /\ pc' = "populate"
          /\ UNCHANGED excep
    /\ UNCHANGED << db, db_saved, disk, fixed, staged, staging, user_id, created_projects,
                    archive, k, project, directory_ordered_list, walk, operation_entity,
                    files, all_datatypes, outcome, calls >>
    /\ UNCHANGED << conc, direct >>

\* Lines 162-164: the next project root, upgraded by ProjectUpdateManager; or the
\* end of the loop.
run_all_updates ==
    /\ pc = "root"
    /\ \/ /\ k = Len(archive.roots)
          /\ pc' = "finally"
          /\ UNCHANGED excep
       \/ /\ k < Len(archive.roots)
          /\ CurrentRoot.upgradable
          /\ pc' = "populate"
          /\ UNCHANGED excep
       \/ /\ k < Len(archive.roots)
          /\ ~CurrentRoot.upgradable
          /\ Raise("Exception", "project update")
    /\ UNCHANGED << db, db_saved, disk, fixed, staged, staging, user_id, created_projects,
                    archive, k, project, directory_ordered_list, walk, operation_entity,
                    files, all_datatypes, outcome, calls >>
    /\ UNCHANGED << conc, direct >>

\* The project appended to created_projects before the persistence layer is asked
\* to store it.
populate_project_tracked_first ==
    /\ pc = "populate"
    /\ created_projects' = Append(created_projects, CurrentRoot.name)
    /\ \/ /\ \E p \in db.projects : p.name = CurrentRoot.name
          /\ Raise("ImportException", "duplicate project")
          /\ UNCHANGED << db, project >>
       \/ /\ \A p \in db.projects : p.name # CurrentRoot.name
          /\ db' = [db EXCEPT !.projects = @ \cup {[name |-> CurrentRoot.name, admin |-> user_id]}]
          /\ project' = CurrentRoot.name
          /\ pc' = "project_folder"
          /\ UNCHANGED excep
    /\ UNCHANGED << db_saved, disk, fixed, staged, staging, user_id, archive, k,
                    directory_ordered_list, walk, operation_entity, files, all_datatypes,
                    outcome, calls >>
    /\ UNCHANGED << conc, direct >>

\* Lines 408-425 and 165-167: store the Project entity; the persistence layer
\* refuses a second project of the same name.
populate_project ==
    /\ pc = "populate"
    /\ \/ /\ \E p \in db.projects : p.name = CurrentRoot.name
          /\ Raise("ImportException", "duplicate project")
          /\ UNCHANGED << db, created_projects, project >>
       \/ /\ \A p \in db.projects : p.name # CurrentRoot.name
          /\ db' = [db EXCEPT !.projects = @ \cup {[name |-> CurrentRoot.name, admin |-> user_id]}]
          /\ created_projects' = Append(created_projects, CurrentRoot.name)
          /\ project' = CurrentRoot.name
          /\ pc' = "project_folder"
          /\ UNCHANGED excep
    /\ UNCHANGED << db_saved, disk, fixed, staged, staging, user_id, archive, k,
                    directory_ordered_list, walk, operation_entity, files, all_datatypes,
                    outcome, calls >>
    /\ UNCHANGED << conc, direct >>

\* FilesHelper.get_project_folder(project): the folder of the project, created
\* when it does not exist ("Ensure project final folder exists on disk").
FilesHelper_project_folder(d, name) == [d EXCEPT !.projects = @ \cup {name}]

\* FilesHelper.get_project_folder(project, sub_folder): the folder of an operation
\* of the project, created when it does not exist.
FilesHelper_operation_folder(d, name, id) == [d EXCEPT !.opdirs = @ \cup {<<name, id>>}]

\* Line 169: project_path = self.files_helper.get_project_folder(project).
project_folder(d, name) == FilesHelper_project_folder(d, name)

\* Lines 168-169: FilesHelper.get_project_folder creates the project's folder,
\* or fails with FileStructureException.
get_project_folder ==
    /\ pc = "project_folder"
    /\ \/ /\ disk' = project_folder(disk, project)
          /\ pc' = "marker"
          /\ UNCHANGED excep
       \/ /\ project \notin disk.projects
          /\ Raise("FileStructureException", "project folder")
          /\ UNCHANGED disk
    /\ UNCHANGED << db, db_saved, fixed, staged, staging, user_id, created_projects, archive,
                    k, project, directory_ordered_list, walk, operation_entity, files,
                    all_datatypes, outcome, calls >>
    /\ UNCHANGED << conc, direct >>

\* The marker file left in the staged root.
marker_left_behind(d, name) == d

\* Line 170: shutil.move puts the marker file into the project's folder.
moved_marker(d, name) == [d EXCEPT !.markers = @ \cup {name}]

\* Line 170: move the marker file of the root into the project's folder.
move_project_file ==
    /\ pc = "marker"
    /\ \/ /\ disk' = moved_marker(disk, project)
          /\ pc' = "order"
          /\ UNCHANGED excep
       \/ /\ Raise("Exception", "project file")
          /\ UNCHANGED disk
    /\ UNCHANGED << db, db_saved, fixed, staged, staging, user_id, created_projects, archive,
                    k, project, directory_ordered_list, walk, operation_entity, files,
                    all_datatypes, outcome, calls >>
    /\ UNCHANGED << conc, direct >>

\* ------------------------------------------------------------ operations
\* Lines 225 and 231-237: a folder gets a key when it holds Operation.xml or a
\* file classified as ViewModelH5 (an unreadable file is passed over).
Qualifies(f) == f.xml \/ ViewModels(f.files) # <<>>

\* Lines 226-228 and 236-237: Operation.xml's create_date, else the create_date
\* of the first view model file of the listing.
DirDate(f) ==
    IF f.xml THEN f.create_date ELSE Head(ViewModels(f.files)).create_date

\* The qualifying folders as the walk met them, without the sort of line 240.
walk_ordered_list(t, w) == SelectSeq(w, LAMBDA i : Qualifies(t[i]))

\* Lines 222-241: the qualifying folders in walk order w, sorted by their key.
ordered_list(t, w) ==
    LET q == SelectSeq(w, LAMBDA i : Qualifies(t[i]))
        directory_list == [i \in 1..Len(q) |-> [path |-> q[i], key |-> DirDate(t[q[i]])]]
        s == sorted(directory_list)
    IN [i \in 1..Len(s) |-> s[i].path]

get_directory_ordered_list ==
    /\ pc = "order"
    /\ \E w \in WalkOrders(TreeAt(CurrentPath), 0) :
          directory_ordered_list' = ordered_list(TreeAt(CurrentPath), w)
    /\ pc' = "path"
    /\ UNCHANGED << db, db_saved, disk, fixed, staged, staging, user_id, created_projects,
                    archive, k, project, walk, operation_entity, files, all_datatypes,
                    excep, outcome, calls >>
    /\ UNCHANGED << conc, direct >>

\* Lines 251-252: the next path of the ordered list and the walk below it; after
\* the last one, on to the images (line 174).
next_path ==
    /\ pc = "path"
    /\ \/ /\ directory_ordered_list # <<>>
          /\ \E w \in WalkOrders(TreeAt(CurrentPath), Head(directory_ordered_list)) : walk' = w
          /\ directory_ordered_list' = Tail(directory_ordered_list)
          /\ pc' = "walk"
       \/ /\ directory_ordered_list = <<>>
          /\ pc' = "images"
          /\ UNCHANGED << directory_ordered_list, walk >>
    /\ UNCHANGED << db, db_saved, disk, fixed, staged, staging, user_id, created_projects,
                    archive, k, project, operation_entity, files, all_datatypes,
                    excep, outcome, calls >>
    /\ UNCHANGED << conc, direct >>

\* The folder the walk is at.
Here == TreeAt(CurrentPath)[Head(walk)]

\* Every view model file taken for a main view model, without the test of line 281.
any_view_model(fs) == ViewModels(fs)

\* Lines 269-288: the main view model of a folder without Operation.xml is its
\* first view model file whose type is a key of VIEW_MODEL2ADAPTER.
main_view_model(fs) == SelectSeq(ViewModels(fs), LAMBDA f : f.adapter)

\* The Operation row an import stores; folder and date record where it came from,
\* group is fk_operation_group (lines 431-433), gid the gid of the main view
\* model in the parameters (line 293; 0 for an Operation read from Operation.xml),
\* op_gid the gid of the Operation itself: the one Operation.xml records, or a
\* new one for the Operation built at line 292.
OperationRow(f) ==
    [project |-> project, user |-> user_id, path |-> CurrentPath, folder |-> Head(walk),
     xml |-> f.xml, date |-> DirDate(f), group |-> IF f.xml THEN f.group ELSE 0,
     gid |-> IF f.xml THEN 0 ELSE Head(main_view_model(f.files)).gid,
     op_gid |-> IF f.xml THEN f.gid ELSE 100 + Len(db.ops) + 1]

\* dao.get_datatypegroup_by_op_group_id: the id of the DataTypeGroup of an
\* OperationGroup (0: there is none, the lookup raises).
get_datatypegroup_by_op_group_id(d, g) ==
    IF \E i \in 1..Len(d.dtgroups) : d.dtgroups[i].op_group = g
    THEN CHOOSE i \in 1..Len(d.dtgroups) : d.dtgroups[i].op_group = g
    ELSE 0

\* A DataTypeGroup stored for every Operation of a group, without the lookup.
stored_operation_with_new_group(d, row) ==
    IF row.group # 0
    THEN [d EXCEPT !.ops = Append(@, row),
                   !.dtgroups = Append(@, [op_group |-> row.group, op |-> Len(d.ops) + 1])]
    ELSE [d EXCEPT !.ops = Append(@, row)]

\* Lines 440-454: the Operation is stored; when it belongs to an OperationGroup
\* without DataTypeGroup, the DataTypeGroup is stored too.
stored_operation(d, row) ==
    LET with_op == [d EXCEPT !.ops = Append(@, row)]
    IN IF row.group # 0 /\ get_datatypegroup_by_op_group_id(d, row.group) = 0
       THEN [with_op EXCEPT !.dtgroups = Append(@, [op_group |-> row.group, op |-> Len(d.ops) + 1])]
       ELSE with_op

\* The datatype_group __import_operation returns for the folder the walk is at
\* (0: None), as _load_datatypes_from_operation_folder receives it.
datatype_group ==
    IF Here.xml /\ Here.group # 0 THEN get_datatypegroup_by_op_group_id(db, Here.group) ELSE 0

\* The operation's folder named (os.path.join) and not created.
op_folder_path(d, name, id) == d

\* Lines 261 and 300:
\* new_op_folder = self.files_helper.get_project_folder(project, str(operation_entity.id)).
new_op_folder(d, name, id) == FilesHelper_operation_folder(d, name, id)

\* Lines 385-389: path_for(final_storage, h5_class, gid), where the file is moved.
final_path(id, f) == [project |-> project, op |-> id, cls |-> f.cls, gid |-> f.gid]

\* Lines 355-383: the entity load_datatype_from_file builds from a file;
\* fk_datatype_group is set for an index when a datatype_group is passed.
loaded(id, f) ==
    [cls |-> f.cls, gid |-> f.gid, create_date |-> f.create_date, op |-> id,
     project |-> project,
     fk_datatype_group |-> IF f.cls = "BurstConfigurationH5" THEN 0 ELSE datatype_group]

\* The sort key without the fallback of line 201: None sorts first.
by_create_date(dt) == dt.create_date

\* Lines 200-203: all_datatypes.sort(key=by_time).
by_time(dt) == IF dt.create_date = 0 THEN Now ELSE dt.create_date

sort_by_time(s) ==
    LET tagged == [i \in 1..Len(s) |-> [key |-> by_time(s[i]), val |-> s[i]]]
        r == sorted(tagged)
    IN [i \in 1..Len(s) |-> r[i].val]

\* The walk below the current path is over (line 252).
end_of_walk ==
    /\ pc = "walk"
    /\ walk = <<>>
    /\ pc' = "path"
    /\ UNCHANGED << db, db_saved, disk, fixed, staged, staging, user_id, created_projects,
                    archive, k, project, directory_ordered_list, walk, operation_entity,
                    files, all_datatypes, excep, outcome, calls >>
    /\ UNCHANGED << conc, direct >>

\* Lines 254-261 and 435-454: a folder with Operation.xml; the Operation is built
\* from the file and stored, its folder is created.
import_operation ==
    /\ pc = "walk"
    /\ walk # <<>>
    /\ Here.xml
    /\ \/ /\ db' = stored_operation(db, OperationRow(Here))
          /\ operation_entity' = Len(db.ops) + 1
          /\ disk' = new_op_folder(disk, project, Len(db.ops) + 1)
          /\ files' = Here.files
          /\ all_datatypes' = <<>>
          /\ pc' = "load"
          /\ UNCHANGED excep
       \/ /\ Raise("Exception", "operation")
          /\ UNCHANGED << db, operation_entity, disk, files, all_datatypes >>
    /\ UNCHANGED << db_saved, fixed, staged, staging, user_id, created_projects, archive, k,
                    project, directory_ordered_list, walk, outcome, calls >>
    /\ UNCHANGED << conc, direct >>

\* Lines 176-197 and 346-391, one file of os.listdir(src_op_path) at a time: a
\* file the upgrade refuses is removed, any other is loaded and moved to its
\* final path; after the last one the batch is sorted (lines 200-203).
load_datatypes_from_operation_folder ==
    /\ pc = "load"
    /\ \/ /\ files # <<>>
          /\ ~Head(files).upgradable
          /\ WriteTree(CurrentPath, [TreeAt(CurrentPath) EXCEPT
                                       ![Head(walk)].files = without(@, Head(files))])
          /\ files' = Tail(files)
          /\ UNCHANGED << disk, all_datatypes, pc >>
       \/ /\ files # <<>>
          /\ Head(files).upgradable
          /\ WriteTree(CurrentPath, [TreeAt(CurrentPath) EXCEPT
                                       ![Head(walk)].files = without(@, Head(files))])
          /\ disk' = [disk EXCEPT !.files = @ \cup {final_path(operation_entity, Head(files))}]
          /\ all_datatypes' = Append(all_datatypes, loaded(operation_entity, Head(files)))
          /\ files' = Tail(files)
          /\ UNCHANGED pc
       \/ /\ files = <<>>
          /\ all_datatypes' = sort_by_time(all_datatypes)
          /\ pc' = "store"
          /\ UNCHANGED << disk, fixed, staged, files >>
    /\ UNCHANGED << db, db_saved, staging, user_id, created_projects, archive, k, project,
                    directory_ordered_list, walk, operation_entity, excep, outcome, calls >>
    /\ UNCHANGED << conc, direct >>

\* The lookup searching the rows of the current operation only.
get_datatype_of_operation(gid) ==
    \E i \in 1..Len(db.datatypes) :
        db.datatypes[i].gid = gid /\ db.datatypes[i].op = operation_entity

\* dao.get_datatype_by_gid: whether a DataType of this gid is stored.
get_datatype_by_gid(gid) == \E i \in 1..Len(db.datatypes) : db.datatypes[i].gid = gid

\* Lines 393-406: dao.store_entity of a loaded entity, in the table of its class.
store_datatype(d, dt) ==
    IF dt.cls = "BurstConfigurationH5"
    THEN [d EXCEPT !.bursts = Append(@, dt)]
    ELSE [d EXCEPT !.datatypes = Append(@, dt)]

\* Lines 209: AlgorithmService.create_link([datatype_already_in_tvb.id], project.id).
create_link(d, dt) == [d EXCEPT !.links = Append(@, [gid |-> dt.gid, project |-> project])]

\* Lines 204-209, one entity of the sorted batch at a time: stored when no
\* DataType of its gid is stored, linked to the project otherwise.
store_imported_datatypes_in_db ==
    /\ pc = "store"
    /\ \/ /\ all_datatypes # <<>>
          /\ ~get_datatype_by_gid(Head(all_datatypes).gid)
          /\ db' = store_datatype(db, Head(all_datatypes))
          /\ all_datatypes' = Tail(all_datatypes)
          /\ UNCHANGED << pc, excep, walk >>
       \/ /\ all_datatypes # <<>>
          /\ ~get_datatype_by_gid(Head(all_datatypes).gid)
          /\ Raise("ImportException", "datatype")
          /\ UNCHANGED << db, all_datatypes, walk >>
       \/ /\ all_datatypes # <<>>
          /\ get_datatype_by_gid(Head(all_datatypes).gid)
          /\ db' = create_link(db, Head(all_datatypes))
          /\ all_datatypes' = Tail(all_datatypes)
          /\ UNCHANGED << pc, excep, walk >>
       \/ /\ all_datatypes = <<>>
          /\ walk' = Tail(walk)
          /\ pc' = "walk"
          /\ UNCHANGED << db, all_datatypes, excep >>
    /\ UNCHANGED << db_saved, disk, fixed, staged, staging, user_id, created_projects, archive,
                    k, project, directory_ordered_list, operation_entity, files, outcome,
                    calls >>
    /\ UNCHANGED << conc, direct >>

\* Lines 283-288: the other readable files the upgrade accepts.
dt_paths(fs) ==
    SelectSeq(fs, LAMBDA f : f.cls \notin {"ViewModelH5", "unreadable"} /\ f.upgradable)

\* Lines 268-300 and 316-318: a folder without Operation.xml; with a main view
\* model an Operation is stored and its folder created, without one the folder is
\* passed over.
import_view_model_operation ==
    /\ pc = "walk"
    /\ walk # <<>>
    /\ ~Here.xml
    /\ \/ /\ main_view_model(Here.files) # <<>>
          /\ db' = [db EXCEPT !.ops = Append(@, OperationRow(Here))]
          /\ operation_entity' = Len(db.ops) + 1
          /\ disk' = new_op_folder(disk, project, Len(db.ops) + 1)
          /\ files' = dt_paths(Here.files)
          /\ all_datatypes' = <<>>
          /\ pc' = "vm_move"
          /\ UNCHANGED walk
       \/ /\ main_view_model(Here.files) = <<>>
          /\ walk' = Tail(walk)
          /\ UNCHANGED << db, operation_entity, disk, files, all_datatypes, pc >>
    /\ UNCHANGED << db_saved, fixed, staged, staging, user_id, created_projects, archive, k,
                    project, directory_ordered_list, excep, outcome, calls >>
    /\ UNCHANGED << conc, direct >>

\* Lines 301-304: every view model file of the folder is moved into the
\* operation's folder.
move_view_model_files ==
    /\ pc = "vm_move"
    /\ WriteTree(CurrentPath, [TreeAt(CurrentPath) EXCEPT
                                 ![Head(walk)].files = SelectSeq(@, LAMBDA f : f.cls # "ViewModelH5")])
    /\ disk' = [disk EXCEPT !.files =
                  @ \cup { final_path(operation_entity, ViewModels(Here.files)[i]) :
                             i \in 1..Len(ViewModels(Here.files)) }]
    /\ \/ /\ files # <<>>
          /\ pc' = "modern_load"
          /\ UNCHANGED walk
       \/ /\ files = <<>>
          /\ walk' = Tail(walk)
          /\ pc' = "walk"
    /\ UNCHANGED << db, db_saved, staging, user_id, created_projects, archive, k, project,
                    directory_ordered_list, operation_entity, files, all_datatypes, excep,
                    outcome, calls >>
    /\ UNCHANGED << conc, direct >>

\* Every entity stored or linked as soon as it is loaded, as the bursts are.
load_dt_paths_storing ==
    /\ pc = "modern_load"
    /\ \/ /\ files # <<>>
          /\ Head(files).cls = "BurstConfigurationH5"
          /\ db' = [db EXCEPT !.bursts = Append(@, loaded(operation_entity, Head(files)))]
          /\ UNCHANGED << all_datatypes, pc >>
       \/ /\ files # <<>>
          /\ Head(files).cls # "BurstConfigurationH5"
          /\ db' = IF get_datatype_by_gid(Head(files).gid)
                   THEN create_link(db, loaded(operation_entity, Head(files)))
                   ELSE store_datatype(db, loaded(operation_entity, Head(files)))
          /\ UNCHANGED << all_datatypes, pc >>
    /\ WriteTree(CurrentPath, [TreeAt(CurrentPath) EXCEPT
                                 ![Head(walk)].files = without(@, Head(files))])
    /\ disk' = [disk EXCEPT !.files = @ \cup {final_path(operation_entity, Head(files))}]
    /\ files' = Tail(files)
    /\ UNCHANGED << db_saved, staging, user_id, created_projects, archive, k, project,
                    directory_ordered_list, walk, operation_entity, excep, outcome, calls >>
    /\ UNCHANGED << conc, direct >>

\* The bursts joining the batch like every other entity.
load_dt_paths_batching ==
    /\ pc = "modern_load"
    /\ files # <<>>
    /\ all_datatypes' = Append(all_datatypes, loaded(operation_entity, Head(files)))
    /\ UNCHANGED << db, pc >>
    /\ WriteTree(CurrentPath, [TreeAt(CurrentPath) EXCEPT
                                 ![Head(walk)].files = without(@, Head(files))])
    /\ disk' = [disk EXCEPT !.files = @ \cup {final_path(operation_entity, Head(files))}]
    /\ files' = Tail(files)
    /\ UNCHANGED << db_saved, staging, user_id, created_projects, archive, k, project,
                    directory_ordered_list, walk, operation_entity, excep, outcome, calls >>
    /\ UNCHANGED << conc, direct >>

\* Lines 306-315, one path of dt_paths at a time: the file is loaded and moved; a
\* BurstConfiguration is stored at once, any other entity joins the batch, which
\* is sorted after the last one (lines 200-203).
load_dt_paths ==
    /\ pc = "modern_load"
    /\ \/ /\ files # <<>>
          /\ Head(files).cls = "BurstConfigurationH5"
          /\ db' = [db EXCEPT !.bursts = Append(@, loaded(operation_entity, Head(files)))]
          /\ UNCHANGED << all_datatypes, pc >>
       \/ /\ files # <<>>
          /\ Head(files).cls # "BurstConfigurationH5"
          /\ all_datatypes' = Append(all_datatypes, loaded(operation_entity, Head(files)))
          /\ UNCHANGED << db, pc >>
    /\ WriteTree(CurrentPath, [TreeAt(CurrentPath) EXCEPT
                                 ![Head(walk)].files = without(@, Head(files))])
    /\ disk' = [disk EXCEPT !.files = @ \cup {final_path(operation_entity, Head(files))}]
    /\ files' = Tail(files)
    /\ UNCHANGED << db_saved, staging, user_id, created_projects, archive, k, project,
                    directory_ordered_list, walk, operation_entity, excep, outcome, calls >>
    /\ UNCHANGED << conc, direct >>

\* Line 315: after the last path the batch goes to _store_imported_datatypes_in_db.
store_modern_batch ==
    /\ pc = "modern_load"
    /\ files = <<>>
    /\ all_datatypes' = sort_by_time(all_datatypes)
    /\ pc' = "store"
    /\ UNCHANGED << db, db_saved, disk, fixed, staged, staging, user_id, created_projects,
                    archive, k, project, directory_ordered_list, walk, operation_entity,
                    files, excep, outcome, calls >>
    /\ UNCHANGED << conc, direct >>

\* ------------------------------------------------------------ images
\* Lines 211-220: the metadata files below the staged root's images folder.
store_imported_images ==
    /\ pc = "images"
    /\ files' = [i \in 1..Len(CurrentRoot.images) |->
                    [n |-> i, state |-> CurrentRoot.images[i].state,
                     fk_from_operation |-> CurrentRoot.images[i].fk_from_operation]]
    /\ pc' = "image"
    /\ UNCHANGED << db, db_saved, disk, fixed, staged, staging, user_id, created_projects,
                    archive, k, project, directory_ordered_list, walk, operation_entity,
                    all_datatypes, excep, outcome, calls >>
    /\ UNCHANGED << conc, direct >>

\* dao.get_operation_by_gid: the id of the Operation of this gid (0: None, there
\* is no such Operation).
get_operation_by_gid(d, gid) ==
    IF \E i \in 1..Len(d.ops) : d.ops[i].op_gid = gid
    THEN CHOOSE i \in 1..Len(d.ops) :
            d.ops[i].op_gid = gid /\ \A j \in 1..(i - 1) : d.ops[j].op_gid # gid
    ELSE 0

\* The figure keeping the reference its metadata records, without the lookup.
FigureRow_unresolved(img) ==
    [project |-> project, user |-> user_id, fk_op_id |-> img.fk_from_operation, n |-> img.n]

\* The ResultFigure row _import_image stores (lines 332-338); fk_op_id 0 is None.
FigureRow(img) ==
    [project |-> project, user |-> user_id,
     fk_op_id |-> get_operation_by_gid(db, img.fk_from_operation), n |-> img.n]

\* The image whose file is missing raising instead of being passed over.
import_image_failing_on_missing ==
    /\ pc = "image"
    /\ \/ /\ files # <<>>
          /\ Head(files).state = "missing"
          /\ Raise("Exception", "image")
          /\ UNCHANGED << db, disk, k, files >>
       \/ /\ files # <<>>
          /\ Head(files).state = "ok"
          /\ db' = [db EXCEPT !.figures = Append(@, FigureRow(Head(files)))]
          /\ disk' = [disk EXCEPT !.images = @ \cup {[project |-> project, n |-> Head(files).n]}]
          /\ files' = Tail(files)
          /\ UNCHANGED << k, pc, excep >>
       \/ /\ files = <<>>
          /\ k' = k + 1
          /\ pc' = "root"
          /\ UNCHANGED << db, disk, files, excep >>
    /\ UNCHANGED << db_saved, fixed, staged, staging, user_id, created_projects, archive,
                    project, directory_ordered_list, walk, operation_entity, all_datatypes,
                    outcome, calls >>
    /\ UNCHANGED << conc, direct >>

\* Lines 322-344, one metadata file at a time: an image whose file is missing is
\* passed over, any other is stored and moved, unless reading its metadata or
\* moving it raises; after the last one the root is done (line 162).
import_image ==
    /\ pc = "image"
    /\ \/ /\ files # <<>>
          /\ Head(files).state = "missing"
          /\ files' = Tail(files)
          /\ UNCHANGED << db, disk, k, pc, excep >>
       \/ /\ files # <<>>
          /\ Head(files).state = "ok"
          /\ Raise("Exception", "image")
          /\ UNCHANGED << db, disk, k, files >>
       \/ /\ files # <<>>
          /\ Head(files).state = "ok"
          /\ db' = [db EXCEPT !.figures = Append(@, FigureRow(Head(files)))]
          /\ disk' = [disk EXCEPT !.images = @ \cup {[project |-> project, n |-> Head(files).n]}]
          /\ files' = Tail(files)
          /\ UNCHANGED << k, pc, excep >>
       \/ /\ files = <<>>
          /\ k' = k + 1
          /\ pc' = "root"
          /\ UNCHANGED << db, disk, files, excep >>
    /\ UNCHANGED << db_saved, fixed, staged, staging, user_id, created_projects, archive,
                    project, directory_ordered_list, walk, operation_entity, all_datatypes,
                    outcome, calls >>
    /\ UNCHANGED << conc, direct >>

\* ------------------------------------------------------------ failure and exit
\* Lines 140-142: shutil.rmtree of the folder of every created project, in the
\* order of the list; rmtree raises on a folder that does not exist and the loop
\* ends there.
\* The except clause ending after the first project of the list.
remove_first_created(created, d) ==
    IF created = <<>> THEN [disk |-> d, raised |-> FALSE]
    ELSE [disk |-> rmtree(d, Head(created)), raised |-> FALSE]

RECURSIVE remove_created(_, _)
remove_created(created, d) ==
    IF created = <<>> THEN [disk |-> d, raised |-> FALSE]
    ELSE IF Head(created) \notin d.projects THEN [disk |-> d, raised |-> TRUE]
    ELSE remove_created(Tail(created), rmtree(d, Head(created)))

\* Lines 133-143: the except clause.
rollback ==
    /\ pc = "except"
    /\ disk' = remove_created(created_projects, disk).disk
    /\ excep' = IF remove_created(created_projects, disk).raised
                THEN Exc("FileNotFoundError", "rmtree")
                ELSE Exc("ImportException", excep.msg)
    /\ pc' = "finally"
    /\ UNCHANGED << db, db_saved, fixed, staged, staging, user_id, created_projects, archive,
                    k, project, directory_ordered_list, walk, operation_entity, files,
                    all_datatypes, outcome, calls >>
    /\ UNCHANGED << conc, direct >>

\* The finally clause without its second half: temp_folder is left behind.
removed_zip_only(st) == [folder |-> st.folder, zip |-> FALSE]

\* Lines 147-151: what the finally clause leaves of uq_file_name and temp_folder.
removed_staging(st) == [folder |-> FALSE, zip |-> FALSE]

\* Lines 145-151: the finally clause.
cleanup ==
    /\ pc = "finally"
    /\ staging' = removed_staging(staging)
    /\ staged' = <<>>
    /\ pc' = "return"
    /\ UNCHANGED << db, db_saved, disk, fixed, user_id, created_projects, archive, k,
                    project, directory_ordered_list, walk, operation_entity, files,
                    all_datatypes, excep, outcome, calls >>
    /\ UNCHANGED << conc, direct >>

\* Line 108, @transactional: the rows of the call are kept when it returns and
\* dropped when an exception leaves it.
transactional ==
    /\ pc = "return"
    /\ db' = IF excep = NoExc THEN db ELSE db_saved
    /\ outcome' = IF excep = NoExc THEN Exc("success", "") ELSE excep
    /\ pc' = "idle"
    /\ excep' = NoExc
    /\ archive' = NoArchive
    /\ k' = 0
    /\ project' = "none"
    /\ directory_ordered_list' = <<>>
    /\ walk' = <<>>
    /\ operation_entity' = 0
    /\ files' = <<>>
    /\ all_datatypes' = <<>>
    /\ UNCHANGED << db_saved, disk, fixed, staged, staging, user_id, created_projects, calls >>
    /\ UNCHANGED << conc, direct >>

\* ------------------------------------------------------------ specification
Next ==
    \/ \E a \in Archives, u \in Users : import_project_structure(a, u)
    \/ download_and_unpack_project_zip
    \/ run_all_updates
    \/ populate_project
    \/ get_project_folder
    \/ move_project_file
    \/ get_directory_ordered_list
    \/ next_path
    \/ end_of_walk
    \/ import_operation
    \/ load_datatypes_from_operation_folder
    \/ store_imported_datatypes_in_db
    \/ import_view_model_operation
    \/ move_view_model_files
    \/ load_dt_paths
    \/ store_modern_batch
    \/ store_imported_images
    \/ import_image
    \/ rollback
    \/ cleanup
    \/ transactional

Spec == Init /\ [][Next]_vars

\* ------------------------------------------------------------ calls at once
\* Calls that run at the same time on one ImportService object.  self.user_id
\* and self.created_projects (lines 77-79) are attributes of the object, so the
\* calls share user_id and created_projects; each has its own locals in thread.
\* Every call uploads a valid archive of one project root with one image, and
\* the directory of line 248 is empty.
MaxClock == 2

Threads == {"t1", "t2"}

\* The caller of import_simulator_configuration_zip.
Sim == "sim"

\* The user_id argument of each call.
ThreadUser(c) == IF c = "t1" THEN "u1" ELSE "u2"

\* The name of the project in each call's archive.
ThreadProject(c) == IF c = "t1" THEN "P1" ELSE "P2"

\* Lines 102-106: the folder name is the formatted reading of datetime.now(),
\* microseconds included: one name per reading.
compute_unpack_path == clock

\* What a call puts at its staging path: uq_file_name and the unpacked folder.
staged_by(c, path) ==
    { [path |-> path, kind |-> "zip", of |-> c], [path |-> path, kind |-> "folder", of |-> c] }

ConcurrentInit ==
    /\ db = EmptyDb
    /\ db_saved = EmptyDb
    /\ disk = EmptyDisk
    /\ fixed = <<>>
    /\ staged = <<>>
    /\ staging = [folder |-> FALSE, zip |-> FALSE]
    /\ user_id = "none"
    /\ created_projects = <<>>
    /\ pc = "idle"
    /\ archive = NoArchive
    /\ k = 0
    /\ project = "none"
    /\ directory_ordered_list = <<>>
    /\ walk = <<>>
    /\ operation_entity = 0
    /\ files = <<>>
    /\ all_datatypes = <<>>
    /\ excep = NoExc
    /\ outcome = Exc("none", "")
    /\ calls = 0
    /\ thread = [c \in Threads \cup {Sim} |-> [pc |-> "idle", temp_folder |-> 0, excep |-> NoExc]]
    /\ clock = 1
    /\ tmp = {}
    /\ storage = {}
    /\ returned = NoCall

\* datetime.now() moves on.
tick ==
    /\ clock < MaxClock
    /\ clock' = clock + 1
    /\ UNCHANGED << db, disk, user_id, created_projects, thread, tmp, alone, direct >>

\* Lines 122-127: the attributes of the object are set, the staging path computed.
thread_import_project_structure(c) ==
    /\ thread[c].pc = "idle"
    /\ user_id' = ThreadUser(c)
    /\ created_projects' = <<>>
    /\ thread' = [thread EXCEPT ![c] = [pc |-> "unpack", temp_folder |-> compute_unpack_path,
                                        excep |-> NoExc]]
    /\ UNCHANGED << db, disk, clock, tmp, alone, direct >>

\* Lines 81-95: the archive is copied to uq_file_name and unpacked into temp_folder.
thread_download_and_unpack_project_zip(c) ==
    /\ thread[c].pc = "unpack"
    /\ tmp' = tmp \cup staged_by(c, thread[c].temp_folder)
    /\ thread' = [thread EXCEPT ![c].pc = "populate"]
    /\ UNCHANGED << db, disk, user_id, created_projects, clock, alone, direct >>

\* Lines 165-167 and 408-425: the Project is stored for self.user_id and appended
\* to self.created_projects.
thread_populate_project(c) ==
    /\ thread[c].pc = "populate"
    /\ db' = [db EXCEPT !.projects = @ \cup {[name |-> ThreadProject(c), admin |-> user_id]}]
    /\ created_projects' = Append(created_projects, ThreadProject(c))
    /\ thread' = [thread EXCEPT ![c].pc = "project_folder"]
    /\ UNCHANGED << disk, user_id, clock, tmp, alone, direct >>

\* Lines 169-172: the project's folder is created and the marker file moved.
thread_get_project_folder(c) ==
    /\ thread[c].pc = "project_folder"
    /\ disk' = moved_marker(project_folder(disk, ThreadProject(c)), ThreadProject(c))
    /\ thread' = [thread EXCEPT ![c].pc = "image"]
    /\ UNCHANGED << db, user_id, created_projects, clock, tmp, alone, direct >>

\* Lines 322-344: the figure is stored for self.user_id and its file moved, or
\* reading or moving it raises.
thread_import_image(c) ==
    /\ thread[c].pc = "image"
    /\ \/ /\ db' = [db EXCEPT !.figures =
                      Append(@, [project |-> ThreadProject(c), user |-> user_id,
                                 fk_op_id |-> 0, n |-> 1])]
          /\ disk' = [disk EXCEPT !.images = @ \cup {[project |-> ThreadProject(c), n |-> 1]}]
          /\ thread' = [thread EXCEPT ![c].pc = "finally"]
       \/ /\ thread' = [thread EXCEPT ![c].pc = "except", ![c].excep = Exc("Exception", "image")]
          /\ UNCHANGED << db, disk >>
    /\ UNCHANGED << user_id, created_projects, clock, tmp, alone, direct >>

\* Lines 133-143: the except clause works on self.created_projects.
thread_rollback(c) ==
    /\ thread[c].pc = "except"
    /\ disk' = remove_created(created_projects, disk).disk
    /\ thread' = [thread EXCEPT ![c].pc = "finally",
                                ![c].excep = IF remove_created(created_projects, disk).raised
                                             THEN Exc("FileNotFoundError", "rmtree")
                                             ELSE Exc("ImportException", thread[c].excep.msg)]
    /\ UNCHANGED << db, user_id, created_projects, clock, tmp, alone, direct >>

\* Lines 145-151: uq_file_name and temp_folder are removed, whatever they hold.
thread_cleanup(c) ==
    /\ thread[c].pc = "finally"
    /\ tmp' = { e \in tmp : e.path # thread[c].temp_folder }
    /\ thread' = [thread EXCEPT ![c].pc = "return"]
    /\ UNCHANGED << db, disk, user_id, created_projects, clock, alone, direct >>

\* Line 108, @transactional: the rows of a call that raises are dropped.
thread_transactional(c) ==
    /\ thread[c].pc = "return"
    /\ db' = IF thread[c].excep = NoExc THEN db
             ELSE [db EXCEPT !.projects = { r \in @ : r.name # ThreadProject(c) },
                             !.figures = SelectSeq(@, LAMBDA f : f.project # ThreadProject(c))]
    /\ thread' = [thread EXCEPT ![c].pc = "done"]
    /\ UNCHANGED << disk, user_id, created_projects, clock, tmp, alone, direct >>

\* Lines 456-459: import_simulator_configuration_zip computes its staging path.
import_simulator_configuration_zip ==
    /\ thread[Sim].pc = "idle"
    /\ thread' = [thread EXCEPT ![Sim].pc = "unpack", ![Sim].temp_folder = compute_unpack_path]
    /\ UNCHANGED << db, disk, user_id, created_projects, clock, tmp, alone, direct >>

\* Lines 461-472: the archive is copied and unpacked, temp_folder is returned.
unpack_simulator_configuration_zip ==
    /\ thread[Sim].pc = "unpack"
    /\ tmp' = tmp \cup staged_by(Sim, thread[Sim].temp_folder)
    /\ thread' = [thread EXCEPT ![Sim].pc = "done"]
    /\ UNCHANGED << db, disk, user_id, created_projects, clock, alone, direct >>

ConcurrentNext ==
    \/ tick
    \/ import_simulator_configuration_zip
    \/ unpack_simulator_configuration_zip
    \/ \E c \in Threads : thread_import_project_structure(c)
    \/ \E c \in Threads : thread_download_and_unpack_project_zip(c)
    \/ \E c \in Threads : thread_populate_project(c)
    \/ \E c \in Threads : thread_get_project_folder(c)
    \/ \E c \in Threads : thread_import_image(c)
    \/ \E c \in Threads : thread_rollback(c)
    \/ \E c \in Threads : thread_cleanup(c)
    \/ \E c \in Threads : thread_transactional(c)

ConcurrentSpec == ConcurrentInit /\ [][ConcurrentNext]_vars

\* ------------------------------------------------------------ methods called directly
\* load_datatype_from_file and get_directory_ordered_list are public: other
\* services call them outside an import, on files and trees of their own.
MaxStored == 2

StorageFolders == {"src", "op"}

\* A file name: the one path_for gives a file of a class and gid, or any other
\* ("any", 0).
FileName(cls, gid) == [cls |-> cls, gid |-> gid]

\* os.path.join(folder, name).
Path(folder, name) == [folder |-> folder, name |-> name]

\* What the stored files hold.
Contents == {dtA, burstCfg}

FileNames == { FileName("any", 0) } \cup { FileName(f.cls, f.gid) : f \in Contents }

\* A stored file: where it is and what it holds.
Stored(at, f) == [at |-> at, h5 |-> f]

\* The file systems of up to n files, one file to a path.
Storages(n) ==
    { st \in SUBSET { Stored(Path(d, nm), f) : d \in StorageFolders, nm \in FileNames, f \in Contents } :
        /\ Cardinality(st) <= n
        /\ \A a, b \in st : a.at = b.at => a = b }

\* The file at a path, as a set: empty when there is none.
FileAt(st, at) == { e \in st : e.at = at }

\* h5.path_for(final_storage, h5_class, gid), called at line 387: the canonical
\* path of the file of that class and gid in the folder final_storage.
path_for(final_storage, cls, gid) == Path(final_storage, FileName(cls, gid))

\* Lines 355-383: the entity built from the file: a BurstConfiguration of the
\* project for a BurstConfigurationH5 file, the index of its datatype for any
\* other; op_id is fk_simulation of the one and fk_from_operation of the other.
datatype_from_file(f, op_id, group, project_id) ==
    [cls |-> f.cls, gid |-> f.gid, create_date |-> f.create_date, op |-> op_id,
     project |-> project_id,
     fk_datatype_group |-> IF f.cls = "BurstConfigurationH5" THEN 0 ELSE group]

\* shutil.move(src, dst) of a file: the file is at dst, whatever was there, and
\* no longer at src; what it holds is not touched.
shutil_move(st, src, dst) ==
    IF src = dst THEN st
    ELSE { e \in st : e.at \notin {src, dst} } \cup { Stored(dst, e.h5) : e \in FileAt(st, src) }

\* The file left where it was found.
left_in_place(st, current_file, final_storage, move, cls, gid) == st

\* Lines 385-389: with move and a final_storage, the file goes to its final path
\* unless it is there.
relocated(st, current_file, final_storage, move, cls, gid) ==
    IF move /\ final_storage # "none" /\ path_for(final_storage, cls, gid) # current_file
    THEN shutil_move(st, current_file, path_for(final_storage, cls, gid))
    ELSE st

\* The folders of the trees get_directory_ordered_list is called on: those of
\* an import, a folder whose only files cannot be read, and a folder that holds
\* both Operation.xml and a view model file.
MaxListed == 3

OrderingPool ==
    FolderPool \cup { Folder(FALSE, 0, 0, 0, 0, <<broken, broken>>),
                      Folder(TRUE, 1, 0, 14, 0, <<vmKnown>>) }

OrderingTrees(n) ==
    UNION { { t \in [1..m -> OrderingPool] :
                /\ \A i \in 1..m : t[i].parent < i
                /\ \A i \in 2..(m - 1) : Len(t[i].files) >= Len(t[i + 1].files) }
            : m \in 0..n }

\* The record of a direct call of get_directory_ordered_list.
Listed(result) == [method |-> "get_directory_ordered_list", result |-> result]

\* The record of a direct call.
Call(method, current_file, final_storage, move, result) ==
    [method |-> method, current_file |-> current_file, final_storage |-> final_storage,
     move |-> move, result |-> result]

\* The two methods have nothing in common: load_datatype_from_file works on the
\* stored files, get_directory_ordered_list reads the tree at import_path (kept
\* in fixed), so a behaviour starts with stored files or with a tree.
MethodInit ==
    /\ db = EmptyDb
    /\ db_saved = EmptyDb
    /\ disk = EmptyDisk
    /\ fixed \in OrderingTrees(MaxListed)
    /\ staged = <<>>
    /\ staging = [folder |-> FALSE, zip |-> FALSE]
    /\ user_id = "none"
    /\ created_projects = <<>>
    /\ pc = "idle"
    /\ archive = NoArchive
    /\ k = 0
    /\ project = "none"
    /\ directory_ordered_list = <<>>
    /\ walk = <<>>
    /\ operation_entity = 0
    /\ files = <<>>
    /\ all_datatypes = <<>>
    /\ excep = NoExc
    /\ outcome = Exc("none", "")
    /\ calls = 0
    /\ thread = <<>>
    /\ clock = 0
    /\ tmp = {}
    /\ storage \in Storages(MaxStored)
    /\ fixed = <<>> \/ storage = {}
    /\ returned = NoCall

\* Lines 346-391: load_datatype_from_file(storage_folder, file_name, op_id,
\* move=move, final_storage=final_storage) on a file that exists.
load_datatype_from_file(storage_folder, file_name, op_id, move, final_storage) ==
    /\ FileAt(storage, Path(storage_folder, file_name)) # {}
    /\ LET current_file == Path(storage_folder, file_name)
           f == (CHOOSE e \in FileAt(storage, current_file) : TRUE).h5
           result == datatype_from_file(f, op_id, 0, "P1")
       IN /\ storage' = relocated(storage, current_file, final_storage, move, f.cls, result.gid)
          /\ returned' = Call("load_datatype_from_file", current_file, final_storage, move, result)
    /\ UNCHANGED << db, disk, user_id, created_projects, conc, alone >>

\* Lines 222-241: get_directory_ordered_list(project, import_path) on the tree
\* at import_path; it reads the tree and changes nothing.
list_directory ==
    /\ \E w \in WalkOrders(fixed, 0) : returned' = Listed(ordered_list(fixed, w))
    /\ UNCHANGED << db, disk, user_id, created_projects, storage, conc, alone >>

MethodNext ==
    \/ \E d \in StorageFolders, nm \in FileNames, move \in BOOLEAN,
          final_storage \in StorageFolders \cup {"none"} :
             load_datatype_from_file(d, nm, 1, move, final_storage)
    \/ list_directory

MethodSpec == MethodInit /\ [][MethodNext]_vars

\* ------------------------------------------------------------ claims
\* The last call has returned with a failure.
Failed == pc = "idle" /\ outcome.type \notin {"none", "success"}

\* The Operation rows of a project, in the order they were stored.
OperationsOf(name) == SelectSeq(db.ops, LAMBDA o : o.project = name)

\* C1 (atomicity): after a call has returned with a failure, no project created
\* in that call has its storage folder on disk or its row in the persistence
\* layer.
Atomicity ==
    Failed =>
        \A i \in 1..Len(created_projects) :
            /\ created_projects[i] \notin disk.projects
            /\ \A p \in db.projects : p.name # created_projects[i]

\* A call failed after it had created two projects.
AtomicityWitness == Failed /\ Len(created_projects) > 1

\* C2 (cleanup always): after a call has returned, however it ended, neither its
\* staging folder nor its staged archive file exists.
CleanupAlways ==
    (pc = "idle" /\ outcome.type # "none") =>
        /\ ~staging.folder
        /\ ~staging.zip
        /\ staged = <<>>

\* A call has returned after its except clause itself raised.
CleanupWitness == pc = "idle" /\ outcome.type = "FileNotFoundError"

\* C3 (dedup), first half: no two stored DataType rows share a gid.
NoTwoShareGid ==
    \A i, j \in 1..Len(db.datatypes) :
        db.datatypes[i].gid = db.datatypes[j].gid => i = j

\* C3, second half: the step that handles a loaded entity whose gid is stored
\* stores no DataType and adds exactly one link, of that gid to the importing
\* project.
LinkInsteadOfStore ==
    ( /\ pc = "store"
      /\ all_datatypes # <<>>
      /\ \E i \in 1..Len(db.datatypes) : db.datatypes[i].gid = Head(all_datatypes).gid )
    => /\ db'.datatypes = db.datatypes
       /\ db'.links = Append(db.links, [gid |-> Head(all_datatypes).gid, project |-> project])

\* C3 (dedup invariant): no two stored DataType rows share a gid, and a loaded
\* entity whose gid is already stored is linked to the importing project, once,
\* and not stored.
DedupInvariant == []NoTwoShareGid /\ [][LinkInsteadOfStore]_vars

\* A call has succeeded that linked an entity instead of storing it.
DedupWitness ==
    /\ pc = "idle"
    /\ outcome.type = "success"
    /\ \E i \in 1..Len(db.links), j \in 1..Len(db.datatypes) :
          db.links[i].gid = db.datatypes[j].gid

\* C4 (ordering): once import_project_operations is through with a project, every
\* operation folder of the project's staged root has its Operation stored, and
\* the project's Operations were stored in ascending order of their folders'
\* dates.
ImportedInDateOrder ==
    pc = "images" =>
        /\ \A f \in 1..Len(CurrentRoot.ops) :
              \E i \in 1..Len(OperationsOf(project)) :
                  /\ OperationsOf(project)[i].path = StagedPath(k + 1)
                  /\ OperationsOf(project)[i].folder = f
        /\ \A i, j \in 1..Len(OperationsOf(project)) :
              i < j => OperationsOf(project)[i].date <= OperationsOf(project)[j].date

\* C5 (mixed scenario): for a root holding legacy folder A and modern folder B,
\* the project's Operations are A's then B's; and when the gid of B's only data
\* file was stored before the call, B's content adds no DataType row and one link.
MixedScenario ==
    (pc = "images" /\ CurrentRoot.ops = MixedTree) =>
        /\ Len(OperationsOf(project)) = 2
        /\ \A f \in 1..2 :
              /\ OperationsOf(project)[f].path = StagedPath(k + 1)
              /\ OperationsOf(project)[f].folder = f
        /\ (\E i \in 1..Len(db_saved.datatypes) : db_saved.datatypes[i].gid = dtA.gid) =>
              /\ \A i \in 1..Len(db.datatypes) :
                    db.datatypes[i].gid = dtA.gid => db.datatypes[i].project # project
              /\ Cardinality({ i \in 1..Len(db.links) :
                                 db.links[i] = [gid |-> dtA.gid, project |-> project] }) = 1

\* A data file the format upgrade refuses.
Refused(f) == f.cls = "DataTypeH5" /\ ~f.upgradable

\* A data file the format upgrade accepts.
Valid(f) == f.cls = "DataTypeH5" /\ f.upgradable

\* C6 (non-fatal file skip): once import_project_operations is through with a
\* project, in every operation folder of the project's staged root, and in every
\* folder an Operation of the project was imported from, the files the upgrade
\* refuses are deleted and every valid one is stored or linked.
FailingFileSkipped ==
    pc = "images" =>
        /\ \A f \in 1..Len(CurrentRoot.ops) :
              /\ \A i \in 1..Len(TreeAt(StagedPath(k + 1))[f].files) :
                    ~Refused(TreeAt(StagedPath(k + 1))[f].files[i])
              /\ \A i \in 1..Len(CurrentRoot.ops[f].files) :
                    Valid(CurrentRoot.ops[f].files[i]) =>
                        \/ \E j \in 1..Len(db.datatypes) :
                              /\ db.datatypes[j].gid = CurrentRoot.ops[f].files[i].gid
                              /\ db.datatypes[j].project = project
                        \/ \E j \in 1..Len(db.links) :
                              db.links[j] = [gid |-> CurrentRoot.ops[f].files[i].gid,
                                             project |-> project]
        /\ \A o \in 1..Len(OperationsOf(project)) :
              \A i \in 1..Len(TreeAt(OperationsOf(project)[o].path)[OperationsOf(project)[o].folder].files) :
                  ~Refused(TreeAt(OperationsOf(project)[o].path)[OperationsOf(project)[o].folder].files[i])

\* C7 (single outcome): a call ends in success or in an ImportException.
SingleOutcome ==
    pc = "idle" => outcome.type \in {"none", "success", "ImportException"}

\* C8 (storage-directory invariant on success): when a call returns without an
\* exception, every project root of the archive has its Project row, its storage
\* folder and, in it, its marker file; and every storage folder on disk belongs
\* to a Project row.
StorageInvariantOnSuccess ==
    (pc = "return" /\ excep = NoExc) =>
        /\ \A i \in 1..Len(archive.roots) :
              /\ \E p \in db.projects : p.name = archive.roots[i].name
              /\ archive.roots[i].name \in disk.projects
              /\ archive.roots[i].name \in disk.markers
        /\ \A n \in disk.projects : \E p \in db.projects : p.name = n

\* A call returns without an exception from an archive of two project roots.
StorageWitness == pc = "return" /\ excep = NoExc /\ Len(archive.roots) = 2

\* C9, the step: a root named like a stored project raises ImportException and
\* leaves the rows and created_projects as they are.
DuplicateRefused ==
    (pc = "populate" /\ \E p \in db.projects : p.name = CurrentRoot.name) =>
        /\ pc' = "except"
        /\ excep' = Exc("ImportException", "duplicate project")
        /\ db' = db
        /\ created_projects' = created_projects

\* C9, the way out: the except clause re-raises the duplicate as an
\* ImportException, and the finally clause and the transaction let it through.
DuplicateReported ==
    /\ (pc = "except" /\ excep.msg = "duplicate project") =>
          (pc' = "finally" /\ excep' = Exc("ImportException", "duplicate project"))
    /\ pc = "finally" => (pc' = "return" /\ excep' = excep)
    /\ (pc = "return" /\ excep # NoExc) => (pc' = "idle" /\ outcome' = excep)

\* C9 (duplicate project): a root named like a stored project makes the call fail
\* with an ImportException, adds no Project row and is not added to
\* created_projects.
DuplicateProject == [][DuplicateRefused /\ DuplicateReported]_vars

\* A call has failed on a duplicate project.
DuplicateWitness == pc = "idle" /\ outcome = Exc("ImportException", "duplicate project")

\* C10 (folder before move): wherever files are about to be moved into an
\* operation's folder, that folder exists; and every file in final storage lies
\* in an existing operation folder.
OperationFolderBeforeMove ==
    /\ pc \in {"load", "vm_move", "modern_load"} =>
          <<project, operation_entity>> \in disk.opdirs
    /\ \A f \in disk.files : <<f.project, f.op>> \in disk.opdirs

\* The view model files of a folder have been moved into its operation's folder
\* and its data files are about to follow.
FolderBeforeMoveWitness ==
    /\ pc = "modern_load"
    /\ \E f \in disk.files :
          f.cls = "ViewModelH5" /\ f.project = project /\ f.op = operation_entity

\* C11 (DataTypeGroup): no two DataTypeGroups belong to one OperationGroup; the
\* OperationGroup of every imported Operation has its DataTypeGroup, stored with
\* the first Operation of that group; and every entity that references a
\* DataTypeGroup, stored or loaded and waiting to be stored, references one
\* that is stored already and belongs to the group of the entity's Operation.
DataTypeGroupInvariant ==
    /\ \A i, j \in 1..Len(db.dtgroups) :
          db.dtgroups[i].op_group = db.dtgroups[j].op_group => i = j
    /\ \A o \in 1..Len(db.ops) :
          db.ops[o].group # 0 =>
              \E i \in 1..Len(db.dtgroups) :
                  /\ db.dtgroups[i].op_group = db.ops[o].group
                  /\ db.dtgroups[i].op <= o
                  /\ db.ops[db.dtgroups[i].op].group = db.ops[o].group
    /\ \A d \in { db.datatypes[i] : i \in 1..Len(db.datatypes) }
                  \cup { all_datatypes[i] : i \in 1..Len(all_datatypes) } :
          d.fk_datatype_group # 0 =>
              /\ d.fk_datatype_group \in 1..Len(db.dtgroups)
              /\ db.dtgroups[d.fk_datatype_group].op <= d.op
              /\ db.dtgroups[d.fk_datatype_group].op_group = db.ops[d.op].group

\* Two Operations of one OperationGroup are imported and a DataType that
\* references a DataTypeGroup is stored.
DataTypeGroupWitness ==
    /\ \E o1, o2 \in 1..Len(db.ops) :
          o1 < o2 /\ db.ops[o1].group # 0 /\ db.ops[o1].group = db.ops[o2].group
    /\ \E i \in 1..Len(db.datatypes) : db.datatypes[i].fk_datatype_group # 0

\* C12 (linking does not duplicate storage): between the folders of an import,
\* every data file in final storage whose gid is linked to its project is the
\* file of a DataType stored for that operation: a linked item has no file of
\* its own in the importing operation's folder.
LinkAddsNoFile ==
    pc \in {"walk", "images"} =>
        \A f \in disk.files :
            ( /\ f.cls = "DataTypeH5"
              /\ \E i \in 1..Len(db.links) :
                    db.links[i] = [gid |-> f.gid, project |-> f.project] )
            => \E i \in 1..Len(db.datatypes) :
                  /\ db.datatypes[i].gid = f.gid
                  /\ db.datatypes[i].op = f.op
                  /\ db.datatypes[i].project = f.project

\* C13 (the scanned tree is the staged root): once import_project_operations is
\* through with a project, every Operation of the project was imported from the
\* project's staged root, and every folder of that root that holds Operation.xml
\* or a view model with an adapter has its Operation.
ScansStagedRoot ==
    pc = "images" =>
        /\ \A i \in 1..Len(OperationsOf(project)) :
              OperationsOf(project)[i].path = StagedPath(k + 1)
        /\ \A f \in 1..Len(CurrentRoot.ops) :
              (CurrentRoot.ops[f].xml
                  \/ \E i \in 1..Len(CurrentRoot.ops[f].files) :
                        /\ CurrentRoot.ops[f].files[i].cls = "ViewModelH5"
                        /\ CurrentRoot.ops[f].files[i].adapter)
              => \E i \in 1..Len(OperationsOf(project)) :
                    /\ OperationsOf(project)[i].path = StagedPath(k + 1)
                    /\ OperationsOf(project)[i].folder = f

\* C14 (concurrent calls do not interfere in rollback bookkeeping): of calls
\* running at once on one ImportService, a call that has not failed keeps the
\* folder of the project it created, a call that has failed and run its except
\* clause has none, and every figure belongs to the user of the call that
\* imported its project.
RollbackOwnProjectsOnly ==
    \A c \in Threads :
        /\ (thread[c].pc \in {"image", "finally", "return", "done"} /\ thread[c].excep = NoExc)
              => ThreadProject(c) \in disk.projects
        /\ (thread[c].pc \in {"finally", "return", "done"} /\ thread[c].excep # NoExc)
              => ThreadProject(c) \notin disk.projects
        /\ \A i \in 1..Len(db.figures) :
              db.figures[i].project = ThreadProject(c) => db.figures[i].user = ThreadUser(c)

\* C15 (staging paths are unique): two staging operations that are under way at
\* the same time have different staging paths, and what a call has staged stays
\* until the call's own finally clause (for import_simulator_configuration_zip:
\* stays).
StagingPathsUnique ==
    /\ \A a, b \in Threads \cup {Sim} :
          ( /\ a # b
            /\ thread[a].pc \notin {"idle", "done"}
            /\ thread[b].pc \notin {"idle", "done"} )
          => thread[a].temp_folder # thread[b].temp_folder
    /\ \A c \in Threads :
          thread[c].pc \in {"populate", "project_folder", "image", "except", "finally"}
              => staged_by(c, thread[c].temp_folder) \subseteq tmp
    /\ thread[Sim].pc = "done" => staged_by(Sim, thread[Sim].temp_folder) \subseteq tmp

\* The step of lines 163-174 the call is at for its current root: 1 upgrade and
\* Project, 2 project folder, 3 marker file, 4 operations and their data, 5
\* images; 0 when it is not in the loop.
Stage ==
    CASE pc \in {"root", "populate"} -> 1
      [] pc = "project_folder" -> 2
      [] pc = "marker" -> 3
      [] pc \in {"order", "path", "walk", "load", "store", "vm_move", "modern_load"} -> 4
      [] pc \in {"images", "image"} -> 5
      [] OTHER -> 0

\* The roots of the running call that are through the step of rank n: the ones
\* before the current root, and the current root when the call is past that step.
Through(n) == 1..(IF Stage > n THEN k + 1 ELSE k)

FirstKnown(fs, i) ==
    /\ fs[i].cls = "ViewModelH5"
    /\ fs[i].adapter
    /\ \A j \in 1..(i - 1) : ~(fs[j].cls = "ViewModelH5" /\ fs[j].adapter)

\* No view model file of listing fs has an adapter.
NoneKnown(fs) == \A i \in 1..Len(fs) : ~(fs[i].cls = "ViewModelH5" /\ fs[i].adapter)

\* C17, selection: the Operation stored for a folder without Operation.xml
\* carries the gid of the first view model file of the folder, in listing order,
\* whose type has an adapter.
MainViewModelSelected ==
    (pc = "walk" /\ walk # <<>> /\ ~Here.xml /\ ~NoneKnown(Here.files)) =>
        /\ Len(db'.ops) = Len(db.ops) + 1
        /\ \E i \in 1..Len(Here.files) :
              FirstKnown(Here.files, i) /\ db'.ops[Len(db'.ops)].gid = Here.files[i].gid

\* C17, skip: a folder without Operation.xml none of whose view model files has
\* an adapter is passed over: the rows, the final storage and the folder's own
\* files stay as they are, no exception is raised and the walk goes on.
FolderSkipped ==
    (pc = "walk" /\ walk # <<>> /\ ~Here.xml /\ NoneKnown(Here.files)) =>
        /\ db' = db
        /\ disk' = disk
        /\ fixed' = fixed
        /\ staged' = staged
        /\ excep' = excep
        /\ pc' = "walk"
        /\ walk' = Tail(walk)

\* C17 (main view model selection): the main view model of a folder is its first
\* view model file whose type has an adapter; a folder without one is skipped
\* without failing the import, with no Operation, no operation folder, no file
\* moved and no DataType stored or linked.
MainViewModelSelection == [][MainViewModelSelected /\ FolderSkipped]_vars

\* The operations of a project are imported: one folder got its Operation from
\* its second view model file, the first having no adapter, and another folder,
\* with a view model file but none with an adapter, still holds all its files.
MainViewModelWitness ==
    /\ pc = "images"
    /\ \E o \in 1..Len(db.ops) : db.ops[o].gid = vmKnown.gid
    /\ \E i \in 1..Len(fixed) : fixed[i].files = <<broken, vmOther, dtB>>

\* C18, the step: whenever a step of an import stores a DataType or creates a
\* link, the call is in _store_imported_datatypes_in_db, no file of the folder
\* is still to be loaded and no loadable data file is left in the folder.
DecisionAfterLoad ==
    ((db'.datatypes # db.datatypes \/ db'.links # db.links) /\ pc # "return") =>
        /\ pc = "store"
        /\ files = <<>>
        /\ \A i \in 1..Len(Here.files) :
              ~( /\ Here.files[i].cls \in {"DataTypeH5", "BurstConfigurationH5"}
                 /\ Here.files[i].upgradable )

\* C18 (dedup after full batch load): every decision of dedup for an item of a
\* folder, store a DataType or link it, is taken after the last file of that
\* folder has been loaded.
DedupAfterBatchLoad == [][DecisionAfterLoad]_vars

\* A folder of two loadable data files has had both loaded and the first of
\* them stored, the second waits in the batch.
DedupAfterBatchLoadWitness ==
    /\ pc = "store"
    /\ Len(all_datatypes) = 1
    /\ \E i \in 1..Len(db.datatypes) : db.datatypes[i].op = operation_entity

\* C19 (batch storage order): the batch _store_imported_datatypes_in_db works
\* on, which it takes from the front, is in non-decreasing order of create_date,
\* whatever the order of the folder's listing, with the entities that have no
\* create_date after all those that have one.
BatchStorageOrder ==
    pc = "store" =>
        \A i, j \in 1..Len(all_datatypes) :
            i < j =>
                /\ (all_datatypes[i].create_date # 0 /\ all_datatypes[j].create_date # 0)
                      => all_datatypes[i].create_date <= all_datatypes[j].create_date
                /\ all_datatypes[i].create_date = 0 => all_datatypes[j].create_date = 0

\* A batch of an entity without create_date and one with, listed in this order
\* by the folder, is about to be stored.
BatchStorageOrderWitness ==
    /\ pc = "store"
    /\ Len(all_datatypes) = 2
    /\ all_datatypes[1].gid = dtB.gid
    /\ all_datatypes[2].gid = dtNoDate.gid

\* C20, the step: in the modern path a loaded BurstConfiguration is stored at
\* once, whatever is stored under its gid, with no link and no DataType row, and
\* does not join the batch; any other loaded entity joins the batch and changes
\* no row.
BurstStoredDirectly ==
    (pc = "modern_load" /\ files # <<>>) =>
        IF Head(files).cls = "BurstConfigurationH5"
        THEN /\ Len(db'.bursts) = Len(db.bursts) + 1
             /\ db'.bursts[Len(db'.bursts)].gid = Head(files).gid
             /\ db'.links = db.links
             /\ db'.datatypes = db.datatypes
             /\ all_datatypes' = all_datatypes
        ELSE /\ db' = db
             /\ Len(all_datatypes') = Len(all_datatypes) + 1
             /\ all_datatypes'[Len(all_datatypes')].gid = Head(files).gid

\* C20, the rows: no link is for the gid of a stored burst, and the batch of a
\* folder without Operation.xml holds no burst.
BurstNeverLinked ==
    /\ \A i \in 1..Len(db.links), j \in 1..Len(db.bursts) : db.links[i].gid # db.bursts[j].gid
    /\ (pc \in {"modern_load", "store"} /\ walk # <<>> /\ ~Here.xml) =>
          \A i \in 1..Len(all_datatypes) : all_datatypes[i].cls # "BurstConfigurationH5"

\* C20 (burst bypass): in the modern path a BurstConfiguration is persisted
\* directly, without gid lookup and without link; every other loaded entity
\* goes through the dedup batch.
BurstBypass == [][BurstStoredDirectly]_vars /\ []BurstNeverLinked

\* A second burst of the same gid has been stored, and an entity of the same
\* folder was linked.
BurstBypassWitness ==
    /\ \E i, j \in 1..Len(db.bursts) : i < j /\ db.bursts[i].gid = db.bursts[j].gid
    /\ \E i \in 1..Len(db.links) : db.links[i].gid = dtA.gid

\* The final path of the file the last direct call loaded.
FinalPathOf(c) == path_for(c.final_storage, c.result.cls, c.result.gid)

\* C21, the step: a call of load_datatype_from_file with move and a final
\* storage leaves the loaded file at path_for(final_storage, class, gid) holding
\* what it held; when the file was at that path the stored files are as they
\* were, otherwise the file is no longer where it was found; the files at other
\* paths are as they were.
Relocation ==
    ( /\ returned'.method = "load_datatype_from_file"
      /\ returned'.move
      /\ returned'.final_storage # "none" )
    => /\ FileAt(storage, returned'.current_file) # {}
       /\ FileAt(storage', FinalPathOf(returned')) =
             { Stored(FinalPathOf(returned'), e.h5) : e \in FileAt(storage, returned'.current_file) }
       /\ FinalPathOf(returned') = returned'.current_file => storage' = storage
       /\ FinalPathOf(returned') # returned'.current_file =>
             FileAt(storage', returned'.current_file) = {}
       /\ { e \in storage' : e.at \notin {FinalPathOf(returned'), returned'.current_file} } =
             { e \in storage : e.at \notin {FinalPathOf(returned'), returned'.current_file} }

\* C21 (relocation rule): after load_datatype_from_file returns with move enabled
\* and a final storage given, the loaded item's file is at the final path
\* computed from the final storage, the file's class and the item's gid; a file
\* already there is not moved; relocation never changes what the file holds.
RelocationRule == [][Relocation]_vars

\* A file found under another name in another folder has been moved to its
\* final path in the final storage.
RelocationWitness ==
    /\ returned.method = "load_datatype_from_file"
    /\ returned.move
    /\ returned.final_storage = "op"
    /\ returned.current_file = Path("src", FileName("any", 0))
    /\ FileAt(storage, FinalPathOf(returned)) # {}
    /\ FileAt(storage, returned.current_file) = {}

\* A folder without Operation.xml whose binary files all fail to be read.
Unclassifiable(f) ==
    /\ ~f.xml
    /\ f.files # <<>>
    /\ \A i \in 1..Len(f.files) : f.files[i].cls = "unreadable"

\* The folders of a tree that hold Operation.xml or a view model file.
QualifyingFolders(t) ==
    { i \in 1..Len(t) :
        t[i].xml \/ \E j \in 1..Len(t[i].files) : t[i].files[j].cls = "ViewModelH5" }

\* The timestamp of a qualifying folder: the one Operation.xml records, else the
\* one of the first view model file of the folder.
Timestamp(f) ==
    IF f.xml THEN f.create_date
    ELSE f.files[CHOOSE j \in 1..Len(f.files) :
                    /\ f.files[j].cls = "ViewModelH5"
                    /\ \A h \in 1..(j - 1) : f.files[h].cls # "ViewModelH5"].create_date

\* C22 (unclassifiable folders in ordering): get_directory_ordered_list returns,
\* whatever the tree holds; no folder whose binary files all fail to be read is
\* in the returned sequence; the sequence holds every qualifying folder, each
\* once, in ascending order of timestamp.
UnclassifiableExcluded ==
    returned.method = "get_directory_ordered_list" =>
        /\ \A i \in 1..Len(fixed) :
              Unclassifiable(fixed[i]) =>
                  \A a \in 1..Len(returned.result) : returned.result[a] # i
        /\ { returned.result[a] : a \in 1..Len(returned.result) } = QualifyingFolders(fixed)
        /\ \A a, b \in 1..Len(returned.result) :
              returned.result[a] = returned.result[b] => a = b
        /\ \A a, b \in 1..Len(returned.result) :
              a < b => Timestamp(fixed[returned.result[a]]) <= Timestamp(fixed[returned.result[b]])

\* The tree holds an unclassifiable folder and two qualifying folders, which were
\* returned in the reverse of their order in the tree.
UnclassifiableWitness ==
    /\ returned.method = "get_directory_ordered_list"
    /\ \E i \in 1..Len(fixed) : Unclassifiable(fixed[i])
    /\ Len(returned.result) = 2
    /\ returned.result[1] > returned.result[2]

\* The metadata files of the current root's images folder that _store_imported_images
\* is through with.
ImagesDone == 1..(Len(CurrentRoot.images) - Len(files))

\* C23, the step: an image whose file is missing is passed over: no row and
\* no file changes, no exception is raised and the loop goes on with the next
\* metadata file.
MissingImagePassedOver ==
    (pc = "image" /\ files # <<>> /\ Head(files).state = "missing") =>
        /\ db' = db
        /\ disk' = disk
        /\ excep' = excep
        /\ pc' = "image"
        /\ files' = Tail(files)

\* C23, the images of a root: of the metadata files the loop is through with,
\* those whose image file is missing have no figure and no file in the
\* project's images folder, and every other has both.
OtherImagesImported ==
    pc = "image" =>
        \A n \in ImagesDone :
            /\ (\E f \in 1..Len(db.figures) :
                    db.figures[f].project = project /\ db.figures[f].n = n)
                  <=> CurrentRoot.images[n].state # "missing"
            /\ [project |-> project, n |-> n] \in disk.images
                  <=> CurrentRoot.images[n].state # "missing"

\* C23 (missing image file): an image-metadata file whose image file does not
\* exist is skipped without failing the import: no figure is stored for it, no
\* file is moved, and the other images of the project are imported.
MissingImageSkipped == [][MissingImagePassedOver]_vars /\ []OtherImagesImported

\* The loop is through with the images of a root whose first image file is
\* missing; the second image has its figure.
MissingImageWitness ==
    /\ pc = "image"
    /\ files = <<>>
    /\ Len(CurrentRoot.images) = 2
    /\ CurrentRoot.images[1].state = "missing"
    /\ \E f \in 1..Len(db.figures) : db.figures[f].project = project /\ db.figures[f].n = 2

\* The operation an image's metadata records resolves to no stored Operation.
Unresolvable(img) == \A i \in 1..Len(db.ops) : db.ops[i].op_gid # img.fk_from_operation

\* C24, the step: for an image whose file is there and whose recorded operation
\* resolves to no stored Operation, unless reading the metadata or moving the
\* file raises, the figure is stored with a null operation reference, the
\* importing project and the calling user, the image file is moved into the
\* project's images folder, and no exception is raised.
UnresolvedFigureStep ==
    (pc = "image" /\ files # <<>> /\ Head(files).state = "ok" /\ Unresolvable(Head(files))) =>
        \/ /\ pc' = "except"
           /\ excep' = Exc("Exception", "image")
        \/ /\ db'.figures = Append(db.figures, [project |-> project, user |-> user_id,
                                                fk_op_id |-> 0, n |-> Head(files).n])
           /\ disk'.images = disk.images \cup {[project |-> project, n |-> Head(files).n]}
           /\ excep' = excep
           /\ pc' = "image"
           /\ files' = Tail(files)

\* C24, the rows: a figure refers to no Operation or to a stored one, and its
\* project is a stored Project.
FigureReferences ==
    \A f \in 1..Len(db.figures) :
        /\ db.figures[f].fk_op_id \in 0..Len(db.ops)
        /\ \E r \in db.projects : r.name = db.figures[f].project

\* C24 (unresolvable figure operation): when the operation an image's metadata
\* records resolves to no stored Operation, the figure is still stored, with a
\* null operation reference and the importing project and calling user as
\* owners, the image file is moved to the project's images folder, and the
\* import does not fail.
UnresolvedFigureStored == [][UnresolvedFigureStep]_vars /\ []FigureReferences

\* A call has succeeded that stored a figure without operation, whose image lies
\* in its project's images folder, and a figure whose operation was found.
UnresolvedFigureWitness ==
    /\ pc = "idle"
    /\ outcome.type = "success"
    /\ \E f \in 1..Len(db.figures) :
          /\ db.figures[f].fk_op_id = 0
          /\ [project |-> db.figures[f].project, n |-> db.figures[f].n] \in disk.images
    /\ \E f \in 1..Len(db.figures) : db.figures[f].fk_op_id # 0

\* C25 (each operation folder imported at most once): no two Operations of a
\* project were imported from the same folder of the same tree, also when a
\* qualifying folder lies inside another qualifying folder.
EachFolderImportedOnce ==
    \A i, j \in 1..Len(db.ops) :
        ( /\ db.ops[i].project = db.ops[j].project
          /\ db.ops[i].path = db.ops[j].path
          /\ db.ops[i].folder = db.ops[j].folder )
        => i = j

\* C26, the step: the except clause entered because the folder of the project
\* just added to created_projects could not be created removes the folder of
\* every other project of the list and raises ImportException.
HalfCreatedRollbackStep ==
    (pc = "except" /\ excep.msg = "project folder") =>
        /\ \A i \in 1..Len(created_projects) : created_projects[i] \notin disk'.projects
        /\ excep'.type = "ImportException"

\* C26 (rollback with a half-created project): when the fatal error occurs after
\* a project was added to created_projects and before its storage folder
\* exists, the rollback deletes the storage folders of the other projects of
\* the list and the call fails with an ImportException.
HalfCreatedRollback == [][HalfCreatedRollbackStep]_vars

\* What the final storage holds of a project: its folder, its marker file, its
\* operation folders, its files and its images.
StorageOf(d, name) ==
    [folder |-> name \in d.projects,
     marker |-> name \in d.markers,
     opdirs |-> { o \in d.opdirs : o[1] = name },
     files |-> { f \in d.files : f.project = name },
     images |-> { i \in d.images : i.project = name }]

\* C27, the step: no step of a running call, its except clause included, changes
\* what the final storage holds of a project that was stored when the call
\* began.
OthersUntouched ==
    pc # "idle" =>
        \A p \in db_saved.projects : StorageOf(disk', p.name) = StorageOf(disk, p.name)

\* C27 (rollback touches only this call's projects): a failing call leaves the
\* storage folder of every project it did not create as it was: the projects
\* of earlier calls on the same ImportService, and a stored project whose name
\* a project root of the failing archive has.
RollbackOwnCall == [][OthersUntouched]_vars

\* A second call has failed on a root named like the project of the first call,
\* after it had created a project of its own; the project of the first call has
\* its folder and its marker file.
RollbackOwnCallWitness ==
    /\ pc = "idle"
    /\ outcome = Exc("ImportException", "duplicate project")
    /\ created_projects # <<>>
    /\ \E p \in db.projects :
          /\ p.name \in disk.projects
          /\ p.name \in disk.markers
          /\ \A i \in 1..Len(created_projects) : created_projects[i] # p.name

====
